---- MODULE Spec2Model ----
(***************************************************************************)
(* Car-rental backend (src/main.py, src/schemas.py): the document store's  *)
(* collections, the seven /api endpoints, and the two check-then-act       *)
(* sequences (ensure_seed, create_booking) split at their store calls.     *)
(*                                                                         *)
(* Spec      one request at a time: cars and bookings endpoints            *)
(* SpecApi   one request at a time: every endpoint                         *)
(* SpecConc  two requests in flight, interleaved at store calls            *)
(***************************************************************************)
EXTENDS Integers, Sequences, FiniteSets, TLC

VARIABLES db, car, booking, review, contact, last, task

vars == <<db, car, booking, review, contact, last, task>>

(***************************************************************************)
(* Bounds of the model.                                                    *)
(***************************************************************************)
\* documents the booking collection may hold
MaxBookings == 2
\* documents the review / contact collections may hold
MaxReviews == 1
MaxContacts == 1
\* hex digits of a store id (bson's ObjectId has 24)
OidLen == 2

(***************************************************************************)
(* Values.                                                                 *)
(***************************************************************************)
\* Python's None for the store handle; any other value is a live handle
None == "None"
Connected == "Connected"

\* ObjectId(s) raising: no id
InvalidId == -1

\* the dates requests draw from, as day-of-year ordinals of 2024:
\* 2024-01-09, 2024-01-10, 2024-01-15, 2024-01-20
Dates == {9, 10, 15, 20}

Statuses == {"active", "confirmed", "completed", "cancelled"}

(***************************************************************************)
(* Text is a sequence of character codes (ASCII), compared as the store    *)
(* compares strings: lexicographically, code by code.                      *)
(***************************************************************************)
RECURSIVE StrLe(_, _)
StrLe(a, b) ==
  IF a = <<>> THEN TRUE
  ELSE IF b = <<>> THEN FALSE
  ELSE IF Head(a) < Head(b) THEN TRUE
  ELSE IF Head(a) > Head(b) THEN FALSE
  ELSE StrLe(Tail(a), Tail(b))

\* the character of a decimal digit ('0' is 48)
Digit(n) == 48 + n

(***************************************************************************)
(* datetime.date: a date is its day-of-year ordinal in 2024; subtraction   *)
(* gives whole days; isoformat gives YYYY-MM-DD, zero padded.              *)
(***************************************************************************)
\* days of 2024 before the first of each month
DaysBeforeMonth == <<0, 31, 60, 91, 121, 152, 182, 213, 244, 274, 305, 335, 366>>

Month(d) == CHOOSE m \in 1..12 : DaysBeforeMonth[m] < d /\ d <= DaysBeforeMonth[m + 1]

DayOfMonth(d) == d - DaysBeforeMonth[Month(d)]

Pad2(n) == <<Digit(n \div 10), Digit(n % 10)>>

\* a plausible slip: no zero padding ("2024-1-9")
isoformatUnpadded(d) ==
  LET num(n) == IF n < 10 THEN <<Digit(n)>> ELSE Pad2(n)
  IN  <<50, 48, 50, 52, 45>> \o num(Month(d)) \o <<45>> \o num(DayOfMonth(d))

\* "2024-" month "-" day
isoformat(d) ==
  <<50, 48, 50, 52, 45>> \o Pad2(Month(d)) \o <<45>> \o Pad2(DayOfMonth(d))

\* (dropoff_date - pickup_date).days
days(payload) == payload.dropoff_date - payload.pickup_date

(***************************************************************************)
(* bson.ObjectId: a store id is a number, its text OidLen hex digits.      *)
(***************************************************************************)
\* '0'..'9', 'a'..'f', 'A'..'F'
IsHex(c) == c \in 48..57 \/ c \in 97..102 \/ c \in 65..70

HexVal(c) == IF c <= 57 THEN c - 48 ELSE IF c >= 97 THEN c - 87 ELSE c - 55

is_valid(s) == Len(s) = OidLen /\ \A i \in 1..Len(s) : IsHex(s[i])

RECURSIVE HexNum(_)
HexNum(s) == IF s = <<>> THEN 0 ELSE 16 * HexNum(SubSeq(s, 1, Len(s) - 1)) + HexVal(s[Len(s)])

\* ObjectId(v): the id, or InvalidId where the constructor raises
ObjectId(s) == IF is_valid(s) THEN HexNum(s) ELSE InvalidId

HexChar(n) == IF n < 10 THEN 48 + n ELSE 87 + n

RECURSIVE HexStr(_, _)
HexStr(n, k) == IF k = 0 THEN <<>> ELSE HexStr(n \div 16, k - 1) \o <<HexChar(n % 16)>>

\* str(oid)
str(oid) == HexStr(oid, OidLen)

(***************************************************************************)
(* The document store: a collection is the sequence of its documents in    *)
(* insertion order; the store assigns each inserted document a fresh id.   *)
(***************************************************************************)
count_documents(coll) == Len(coll)

\* ids are unique across collections: each collection draws from its own range
IdBase(name) ==
  LET quarter == (16 ^ OidLen) \div 4
  IN  CASE name = "car" -> 0
        [] name = "booking" -> quarter
        [] name = "review" -> 2 * quarter
        [] name = "contact" -> 3 * quarter

inserted_id(name, coll) == IdBase(name) + Len(coll) + 1

\* the ids of a collection's documents, in insertion order
Ids(name, coll) == [i \in 1..Len(coll) |-> str(IdBase(name) + i)]

\* a plausible slip: a filter on a key no document has matches like no filter
find_one_unfiltered(coll, oid) == SubSeq(coll, 1, IF coll = <<>> THEN 0 ELSE 1)

\* find_one({"_id": oid}): the documents matching (none or one)
find_one(coll, oid) == SelectSeq(coll, LAMBDA d : d._id = oid)

SAMPLE_CARS ==
  << [title |-> "Apex GT-R", year |-> 2022, price_per_day |-> 320, rating |-> 48],
     [title |-> "Volt S", year |-> 2023, price_per_day |-> 280, rating |-> 47],
     [title |-> "Trailhawk X", year |-> 2021, price_per_day |-> 190, rating |-> 44] >>

\* db["car"].insert_many(docs)
insert_many(coll, docs) ==
  coll \o [i \in 1..Len(docs) |->
             [_id |-> IdBase("car") + Len(coll) + i,
              title |-> docs[i].title,
              year |-> docs[i].year,
              price_per_day |-> docs[i].price_per_day,
              rating |-> docs[i].rating]]

\* a plausible slip: seeding without the count-is-zero test
ensure_seed_unchecked ==
  IF db = None THEN car ELSE insert_many(car, SAMPLE_CARS)

\* the car collection after ensure_seed() run without interruption
ensure_seed ==
  IF db = None THEN car
  ELSE IF count_documents(car) = 0 THEN insert_many(car, SAMPLE_CARS)
  ELSE car

\* cursor.sort([("rating", -1)]): a stable insertion sort, highest rating first
RECURSIVE SortByRating(_)
SortByRating(coll) ==
  IF coll = <<>> THEN <<>>
  ELSE LET rest == SortByRating(Tail(coll))
           d == Head(coll)
           before == SelectSeq(rest, LAMBDA x : x.rating > d.rating)
           after == SelectSeq(rest, LAMBDA x : x.rating <= d.rating)
       IN  before \o <<d>> \o after

\* serialize_doc over a cursor: the public "id" of each document
serialize_docs(coll) == [i \in 1..Len(coll) |-> str(coll[i]._id)]

(***************************************************************************)
(* Requests and responses.                                                 *)
(***************************************************************************)
\* a valid id that no car ever has, and a text that is no id
NoCarId == str((16 ^ OidLen) - 1)
\* "no"
BadId == <<110, 111>>

CarIds == {str(1), str(2), NoCarId, BadId}

\* BookingIn, the fields the handler reads
Payloads ==
  [car_id : CarIds, pickup_date : Dates, dropoff_date : Dates, status : Statuses]

NoPayload == [car_id |-> <<>>, pickup_date |-> 0, dropoff_date |-> 0, status |-> ""]

Request(op, payload) == [op |-> op, payload |-> payload]

\* the response of a handler: status code, HTTPException detail, JSON body
Response(status_code, detail, ids, total_cost, status) ==
  [status_code |-> status_code, detail |-> detail, ids |-> ids,
   total_cost |-> total_cost, status |-> status]

Error(status_code, detail) == Response(status_code, detail, <<>>, 0, "")

Ok(ids) == Response(200, "", ids, 0, "")

NoRequest == [req |-> Request("", NoPayload), resp |-> Ok(<<>>)]

Idle == [pc |-> "idle", req |-> Request("", NoPayload), overlap |-> 0,
         found |-> <<>>, resp |-> Ok(<<>>)]

Tasks == {"t1", "t2"}

Init ==
  /\ db \in {None, Connected}
  /\ car = <<>>
  /\ booking = <<>>
  /\ review = <<>>
  /\ contact = <<>>
  /\ last = NoRequest
  /\ task = [t \in Tasks |-> Idle]

(***************************************************************************)
(* Cars endpoints.                                                         *)
(***************************************************************************)
\* the cursor of list_cars called with no filter, default sort and limit
find_cars(coll) == serialize_docs(SortByRating(coll))

list_cars_response(coll) ==
  IF db = None THEN Ok(<<>>) ELSE Ok(find_cars(coll))

list_cars ==
  LET seeded == ensure_seed
  IN  /\ last = NoRequest
      /\ car' = seeded
      /\ last' = [req |-> Request("list_cars", NoPayload),
                  resp |-> list_cars_response(seeded)]
      /\ UNCHANGED <<db, booking, review, contact, task>>

get_car_response(coll, car_id) ==
  IF db = None THEN Error(404, "Database not available")
  ELSE IF ObjectId(car_id) = InvalidId THEN Error(400, "Invalid car id")
  ELSE IF find_one(coll, ObjectId(car_id)) = <<>> THEN Error(404, "Car not found")
  ELSE Ok(serialize_docs(find_one(coll, ObjectId(car_id))))

get_car(car_id) ==
  LET seeded == ensure_seed
  IN  /\ last = NoRequest
      /\ car' = seeded
      /\ last' = [req |-> Request("get_car", [NoPayload EXCEPT !.car_id = car_id]),
                  resp |-> get_car_response(seeded, car_id)]
      /\ UNCHANGED <<db, booking, review, contact, task>>

(***************************************************************************)
(* Booking endpoints.                                                      *)
(***************************************************************************)
\* a plausible slip: the half-open test, which lets back-to-back bookings through
OverlapsExclusive(doc, payload) ==
  /\ doc.car_id = payload.car_id
  /\ doc.status \in {"active", "confirmed"}
  /\ StrLe(doc.pickup_date, isoformat(payload.dropoff_date))
  /\ doc.pickup_date # isoformat(payload.dropoff_date)
  /\ StrLe(isoformat(payload.pickup_date), doc.dropoff_date)
  /\ doc.dropoff_date # isoformat(payload.pickup_date)

\* the filter of the availability query
Overlaps(doc, payload) ==
  /\ doc.car_id = payload.car_id
  /\ doc.status \in {"active", "confirmed"}
  /\ StrLe(doc.pickup_date, isoformat(payload.dropoff_date))
  /\ StrLe(isoformat(payload.pickup_date), doc.dropoff_date)

\* db["booking"].count_documents({...})
overlap_count(coll, payload) ==
  Cardinality({i \in 1..Len(coll) : Overlaps(coll[i], payload)})

\* a plausible slip: a same-day rental let through (days < 0 for days <= 0)
PrecheckSameDay(payload, overlap) ==
  IF db = None THEN Error(500, "Database not available")
  ELSE IF ObjectId(payload.car_id) = InvalidId THEN Error(400, "Invalid car id")
  ELSE IF overlap > 0 THEN Error(409, "Selected dates are not available")
  ELSE IF days(payload) < 0 THEN Error(400, "Drop-off must be after pickup")
  ELSE Ok(<<>>)

\* the checks up to the car lookup, in the order the handler makes them;
\* Ok when none rejects
Precheck(payload, overlap) ==
  IF db = None THEN Error(500, "Database not available")
  ELSE IF ObjectId(payload.car_id) = InvalidId THEN Error(400, "Invalid car id")
  ELSE IF overlap > 0 THEN Error(409, "Selected dates are not available")
  ELSE IF days(payload) <= 0 THEN Error(400, "Drop-off must be after pickup")
  ELSE Ok(<<>>)

total_cost(payload, cardoc) == days(payload) * cardoc.price_per_day

\* booking_data: the payload dumped, dates as ISO text, the cost filled in
booking_data(payload, cardoc) ==
  [car_id |-> payload.car_id,
   pickup_date |-> isoformat(payload.pickup_date),
   dropoff_date |-> isoformat(payload.dropoff_date),
   status |-> payload.status,
   total_cost |-> total_cost(payload, cardoc)]

\* create_document(name, data): the document is appended, its id returned
create_document(coll, data) == Append(coll, data)

\* the response given what the two reads returned
create_booking_response(payload, overlap, found) ==
  IF Precheck(payload, overlap) # Ok(<<>>) THEN Precheck(payload, overlap)
  ELSE IF found = <<>> THEN Error(404, "Car not found")
  ELSE Response(200, "", <<str(inserted_id("booking", booking))>>,
                total_cost(payload, found[1]), "confirmed")

\* a plausible slip: the booking persisted before the availability check
create_booking_insert_first(payload) ==
  LET overlap == overlap_count(booking, payload)
      found == find_one(car, ObjectId(payload.car_id))
      resp == create_booking_response(payload, overlap, found)
  IN  /\ last = NoRequest
      /\ Len(booking) < MaxBookings
      /\ booking' = IF found # <<>> /\ days(payload) > 0
                    THEN create_document(booking, booking_data(payload, found[1]))
                    ELSE booking
      /\ last' = [req |-> Request("create_booking", payload), resp |-> resp]
      /\ UNCHANGED <<db, car, review, contact, task>>

create_booking(payload) ==
  LET overlap == overlap_count(booking, payload)
      found == find_one(car, ObjectId(payload.car_id))
      resp == create_booking_response(payload, overlap, found)
  IN  /\ last = NoRequest
      /\ Len(booking) < MaxBookings
      /\ booking' = IF resp.status_code = 200
                    THEN create_document(booking, booking_data(payload, found[1]))
                    ELSE booking
      /\ last' = [req |-> Request("create_booking", payload), resp |-> resp]
      /\ UNCHANGED <<db, car, review, contact, task>>

list_bookings_response ==
  IF db = None THEN Ok(<<>>) ELSE Ok(Ids("booking", booking))

list_bookings ==
  /\ last = NoRequest
  /\ last' = [req |-> Request("list_bookings", NoPayload), resp |-> list_bookings_response]
  /\ UNCHANGED <<db, car, booking, review, contact, task>>

(***************************************************************************)
(* Reviews and contact.                                                    *)
(***************************************************************************)
\* what create_document answers: it fails when there is no store handle
create_document_response(name, coll) ==
  IF db = None THEN Error(500, "Database not available")
  ELSE Ok(<<str(inserted_id(name, coll))>>)

\* a plausible slip: the store handle not checked before the id
add_review_response_unchecked(car_id) ==
  IF ObjectId(car_id) = InvalidId THEN Error(400, "Invalid car id")
  ELSE create_document_response("review", review)

add_review_response(car_id) ==
  IF db = None THEN Error(500, "Database not available")
  ELSE IF ObjectId(car_id) = InvalidId THEN Error(400, "Invalid car id")
  ELSE create_document_response("review", review)

add_review(car_id) ==
  LET resp == add_review_response(car_id)
  IN  /\ last = NoRequest
      /\ Len(review) < MaxReviews
      /\ review' = IF resp.status_code = 200
                   THEN create_document(review, [car_id |-> car_id])
                   ELSE review
      /\ last' = [req |-> Request("add_review", [NoPayload EXCEPT !.car_id = car_id]),
                  resp |-> resp]
      /\ UNCHANGED <<db, car, booking, contact, task>>

\* car_id = <<>> is the call without the filter
list_reviews_response(car_id) ==
  IF db = None THEN Ok(<<>>)
  ELSE LET all == Ids("review", review)
           hit == {i \in 1..Len(review) : car_id = <<>> \/ review[i].car_id = car_id}
       IN  Ok(SelectSeq(all, LAMBDA id : \E i \in hit : all[i] = id))

list_reviews(car_id) ==
  /\ last = NoRequest
  /\ last' = [req |-> Request("list_reviews", [NoPayload EXCEPT !.car_id = car_id]),
              resp |-> list_reviews_response(car_id)]
  /\ UNCHANGED <<db, car, booking, review, contact, task>>

submit_contact_response == create_document_response("contact", contact)

submit_contact ==
  LET resp == submit_contact_response
  IN  /\ last = NoRequest
      /\ Len(contact) < MaxContacts
      /\ contact' = IF resp.status_code = 200
                    THEN create_document(contact, [message |-> "message"])
                    ELSE contact
      /\ last' = [req |-> Request("submit_contact", NoPayload), resp |-> resp]
      /\ UNCHANGED <<db, car, booking, review, task>>

(***************************************************************************)
(* One request at a time: a handler runs from its first line to its        *)
(* return or raise, the response goes out, and the next request is taken.  *)
(***************************************************************************)
respond ==
  /\ last # NoRequest
  /\ last' = NoRequest
  /\ UNCHANGED <<db, car, booking, review, contact, task>>

Next ==
  \/ respond
  \/ list_cars
  \/ \E car_id \in CarIds : get_car(car_id)
  \/ \E payload \in Payloads : create_booking(payload)
  \/ list_bookings

Spec == Init /\ [][Next]_vars

\* every endpoint, bookings requested from one pickup date
ApiPayloads == {p \in Payloads : p.status = "active" /\ p.pickup_date = 10}

NextApi ==
  \/ respond
  \/ list_cars
  \/ \E car_id \in CarIds : get_car(car_id)
  \/ \E payload \in ApiPayloads : create_booking(payload)
  \/ list_bookings
  \/ \E car_id \in CarIds : add_review(car_id)
  \/ \E car_id \in CarIds \cup {<<>>} : list_reviews(car_id)
  \/ submit_contact

SpecApi == Init /\ [][NextApi]_vars

(***************************************************************************)
(* Two requests in flight.  Each store call is one step; the handler's own *)
(* statements run with the store call before them.                         *)
(***************************************************************************)
Free(t) == task[t].pc = "idle"

InFlight == {t \in Tasks : task[t].pc \in {"find_car", "insert"}}

Finish(t, resp) == [task[t] EXCEPT !.pc = "done", !.resp = resp]

\* create_booking up to and including the availability count and the checks
\* on its result and on the day count
cb_count(t, payload) ==
  LET overlap == overlap_count(booking, payload)
      started == [Idle EXCEPT !.req = Request("create_booking", payload),
                              !.overlap = overlap]
      pre == Precheck(payload, overlap)
  IN  /\ Free(t)
      /\ Len(booking) + Cardinality(InFlight) < MaxBookings
      /\ task' = [task EXCEPT ![t] =
                    IF pre # Ok(<<>>)
                    THEN [started EXCEPT !.pc = "done", !.resp = pre]
                    ELSE [started EXCEPT !.pc = "find_car"]]
      /\ UNCHANGED <<db, car, booking, review, contact, last>>

\* the car lookup and the check on its result
cb_find_car(t) ==
  LET found == find_one(car, ObjectId(task[t].req.payload.car_id))
  IN  /\ task[t].pc = "find_car"
      /\ task' = [task EXCEPT ![t] =
                    IF found = <<>>
                    THEN Finish(t, Error(404, "Car not found"))
                    ELSE [task[t] EXCEPT !.pc = "insert", !.found = found]]
      /\ UNCHANGED <<db, car, booking, review, contact, last>>

\* a stricter store: the insert is conditional on the availability query
cb_insert_conditional(t) ==
  LET payload == task[t].req.payload
      free == overlap_count(booking, payload) = 0
  IN  /\ task[t].pc = "insert"
      /\ booking' = IF free
                    THEN create_document(booking, booking_data(payload, task[t].found[1]))
                    ELSE booking
      /\ task' = [task EXCEPT ![t] =
                    Finish(t, IF free
                              THEN create_booking_response(payload, task[t].overlap, task[t].found)
                              ELSE Error(409, "Selected dates are not available"))]
      /\ UNCHANGED <<db, car, review, contact, last>>

\* the insert and the return
cb_insert(t) ==
  LET payload == task[t].req.payload
  IN  /\ task[t].pc = "insert"
      /\ booking' = create_document(booking, booking_data(payload, task[t].found[1]))
      /\ task' = [task EXCEPT ![t] =
                    Finish(t, create_booking_response(payload, task[t].overlap, task[t].found))]
      /\ UNCHANGED <<db, car, review, contact, last>>

\* list_cars: ensure_seed up to and including its count
seed_count(t) ==
  LET started == [Idle EXCEPT !.req = Request("list_cars", NoPayload)]
  IN  /\ Free(t)
      /\ task' = [task EXCEPT ![t] =
                    IF db = None
                    THEN [started EXCEPT !.pc = "done", !.resp = list_cars_response(car)]
                    ELSE IF count_documents(car) = 0
                    THEN [started EXCEPT !.pc = "seed_insert"]
                    ELSE [started EXCEPT !.pc = "find"]]
      /\ UNCHANGED <<db, car, booking, review, contact, last>>

\* a stricter store: the insert is conditional on the collection being empty
seed_insert_conditional(t) ==
  /\ task[t].pc = "seed_insert"
  /\ car' = IF count_documents(car) = 0 THEN insert_many(car, SAMPLE_CARS) ELSE car
  /\ task' = [task EXCEPT ![t].pc = "find"]
  /\ UNCHANGED <<db, booking, review, contact, last>>

\* ensure_seed's insert_many
seed_insert(t) ==
  /\ task[t].pc = "seed_insert"
  /\ car' = insert_many(car, SAMPLE_CARS)
  /\ task' = [task EXCEPT ![t].pc = "find"]
  /\ UNCHANGED <<db, booking, review, contact, last>>

\* list_cars: the query and the return
cars_find(t) ==
  /\ task[t].pc = "find"
  /\ task' = [task EXCEPT ![t] = Finish(t, list_cars_response(car))]
  /\ UNCHANGED <<db, car, booking, review, contact, last>>

\* the response goes out and the worker takes its next request
task_respond(t) ==
  /\ task[t].pc = "done"
  /\ task' = [task EXCEPT ![t] = Idle]
  /\ UNCHANGED <<db, car, booking, review, contact, last>>

\* concurrent bookings are requested for one car, as active
ConcPayloads == {p \in Payloads : p.car_id = str(1) /\ p.status = "active"}

NextConc ==
  \E t \in Tasks :
    \/ \E payload \in ConcPayloads : cb_count(t, payload)
    \/ cb_find_car(t)
    \/ cb_insert(t)
    \/ seed_count(t)
    \/ seed_insert(t)
    \/ cars_find(t)
    \/ task_respond(t)

SpecConc == Init /\ [][NextConc]_vars

(***************************************************************************)
(* Reading the state back, for the properties below.                       *)
(***************************************************************************)
RECURSIVE Num(_)
Num(s) == IF s = <<>> THEN 0 ELSE 10 * Num(SubSeq(s, 1, Len(s) - 1)) + (s[Len(s)] - 48)

\* the date an ISO text names: the fields between the hyphens, read as numbers
fromisoformat(s) ==
  LET hyphens == {i \in 1..Len(s) : s[i] = 45}
      h1 == CHOOSE i \in hyphens : \A j \in hyphens : i <= j
      h2 == CHOOSE i \in hyphens : \A j \in hyphens : j <= i
  IN  DaysBeforeMonth[Num(SubSeq(s, h1 + 1, h2 - 1))] + Num(SubSeq(s, h2 + 1, Len(s)))

Held(doc) == doc.status \in {"active", "confirmed"}

\* the intervals [pickup_date, dropoff_date) of two stored bookings intersect
Intersect(a, b) ==
  /\ fromisoformat(a.pickup_date) < fromisoformat(b.dropoff_date)
  /\ fromisoformat(b.pickup_date) < fromisoformat(a.dropoff_date)

\* a stored booking meets the request under the inclusive test, on dates
Conflicts(doc, payload) ==
  /\ doc.car_id = payload.car_id
  /\ Held(doc)
  /\ fromisoformat(doc.pickup_date) <= payload.dropoff_date
  /\ fromisoformat(doc.dropoff_date) >= payload.pickup_date

HasConflict(coll, payload) == \E i \in 1..Len(coll) : Conflicts(coll[i], payload)

NoSuchCar(coll, car_id) == \A i \in 1..Len(coll) : coll[i]._id # ObjectId(car_id)

\* this step is the handler of `op` running
Handled(op) == last = NoRequest /\ last'.req.op = op

\* the car collection holds the sample set exactly once
SeededOnce(coll) ==
  /\ Len(coll) = Len(SAMPLE_CARS)
  /\ \A i \in 1..Len(coll) : coll[i].title = SAMPLE_CARS[i].title

(***************************************************************************)
(* C1.  With create_booking requests handled one at a time, no two         *)
(* distinct stored bookings of the same car_id, both active or confirmed,  *)
(* have intersecting [pickup_date, dropoff_date) intervals.                *)
(***************************************************************************)
C1_NoDoubleBooking ==
  \A i, j \in 1..Len(booking) :
    (i < j /\ booking[i].car_id = booking[j].car_id /\ Held(booking[i]) /\ Held(booking[j]))
      => ~Intersect(booking[i], booking[j])

\* a second held booking of one car has just been accepted
C1_Witness ==
  /\ \E i, j \in 1..Len(booking) :
       i < j /\ booking[i].car_id = booking[j].car_id /\ Held(booking[i]) /\ Held(booking[j])
  /\ last.req.op = "create_booking"
  /\ last.resp.status_code = 200

(***************************************************************************)
(* C2.  The availability count and the insert of create_booking are two    *)
(* store operations with nothing atomic between them: a request that saw   *)
(* a count of 0 inserts its booking whatever the collection holds by then, *)
(* so two interleaved requests for one car and intersecting dates can both *)
(* be persisted.                                                           *)
(***************************************************************************)
C2_InsertUnconditional ==
  [][\A t \in Tasks :
       (task[t].pc = "insert" /\ task'[t].pc # "insert")
         => /\ task[t].overlap = 0
            /\ Len(booking') = Len(booking) + 1
            /\ SubSeq(booking', 1, Len(booking)) = booking
            /\ booking'[Len(booking')].car_id = task[t].req.payload.car_id
            /\ fromisoformat(booking'[Len(booking')].pickup_date) = task[t].req.payload.pickup_date
            /\ fromisoformat(booking'[Len(booking')].dropoff_date) = task[t].req.payload.dropoff_date
            /\ task'[t].resp.status_code = 200]_vars

\* both requests answered 200 after a count of 0, for one car and
\* intersecting dates, and both bookings are in the collection
C2_Witness ==
  /\ \A t \in Tasks :
       /\ task[t].pc = "done"
       /\ task[t].req.op = "create_booking"
       /\ task[t].overlap = 0
       /\ task[t].resp.status_code = 200
  /\ task["t1"].req.payload.car_id = task["t2"].req.payload.car_id
  /\ task["t1"].req.payload.pickup_date < task["t2"].req.payload.dropoff_date
  /\ task["t2"].req.payload.pickup_date < task["t1"].req.payload.dropoff_date
  /\ Len(booking) = 2
  /\ booking[1].car_id = booking[2].car_id
  /\ Held(booking[1]) /\ Held(booking[2])
  /\ Intersect(booking[1], booking[2])

(***************************************************************************)
(* C3.  As claimed: with the store available and a valid car_id, a request *)
(* with dropoff_date <= pickup_date is rejected 400 "Drop-off must be      *)
(* after pickup" and never 409, whatever bookings exist.                   *)
(***************************************************************************)
C3_DatesBeforeOverlap ==
  ( /\ last.req.op = "create_booking"
    /\ db # None
    /\ is_valid(last.req.payload.car_id)
    /\ last.req.payload.dropoff_date <= last.req.payload.pickup_date )
  => last.resp = Error(400, "Drop-off must be after pickup")

C5_DropoffAfterPickup ==
  /\ \A i \in 1..Len(booking) :
       fromisoformat(booking[i].pickup_date) < fromisoformat(booking[i].dropoff_date)
  /\ ( /\ last.req.op = "create_booking"
       /\ last.req.payload.dropoff_date <= last.req.payload.pickup_date )
     => last.resp.status_code \in {400, 409, 500}

\* a same-day request for an existing car with no booking in the way has
\* just been rejected, with bookings stored
C5_Witness ==
  /\ last.req.op = "create_booking"
  /\ last.req.payload.dropoff_date = last.req.payload.pickup_date
  /\ ~NoSuchCar(car, last.req.payload.car_id)
  /\ ~HasConflict(booking, last.req.payload)
  /\ last.resp.status_code = 400
  /\ booking # <<>>

(***************************************************************************)
(* C6.  With the store available, a request whose car_id is a valid id of  *)
(* no car, with dropoff_date > pickup_date and no overlapping held         *)
(* booking, is answered 404 and nothing is persisted.                      *)
(***************************************************************************)
C6_UnknownCarNotFound ==
  [][( /\ Handled("create_booking")
       /\ db # None
       /\ is_valid(last'.req.payload.car_id)
       /\ NoSuchCar(car, last'.req.payload.car_id)
       /\ last'.req.payload.dropoff_date > last'.req.payload.pickup_date
       /\ ~HasConflict(booking, last'.req.payload) )
     => /\ last'.resp = Error(404, "Car not found")
        /\ booking' = booking]_vars

\* answered 404 for an unknown car while the car collection holds cars
C6_Witness ==
  /\ last.req.op = "create_booking"
  /\ last.resp = Error(404, "Car not found")
  /\ car # <<>>
  /\ NoSuchCar(car, last.req.payload.car_id)

(***************************************************************************)
(* C7.  Every rejected create_booking request leaves the booking and car   *)
(* collections as they were; an accepted one makes one insert into the     *)
(* booking collection and nothing else.                                    *)
(***************************************************************************)
C7_RejectionChangesNothing ==
  [][Handled("create_booking")
     => /\ car' = car
        /\ review' = review
        /\ contact' = contact
        /\ last'.resp.status_code # 200 => booking' = booking
        /\ last'.resp.status_code = 200
             => /\ Len(booking') = Len(booking) + 1
                /\ SubSeq(booking', 1, Len(booking)) = booking]_vars

\* a request for an existing car and valid days has been rejected for a
\* conflict, and the collection holds what it held
C7_Witness ==
  /\ last.req.op = "create_booking"
  /\ last.resp.status_code = 409
  /\ ~NoSuchCar(car, last.req.payload.car_id)
  /\ last.req.payload.dropoff_date > last.req.payload.pickup_date
  /\ Len(booking) = 1

(***************************************************************************)
(* C8.  With the store available and requests handled one at a time, a     *)
(* list_cars or get_car call leaves the car collection holding the sample  *)
(* set exactly once, and leaves a non-empty car collection unchanged.      *)
(***************************************************************************)
C8_SeedOnce ==
  [][( /\ (Handled("list_cars") \/ Handled("get_car"))
       /\ db # None )
     => /\ SeededOnce(car')
        /\ car # <<>> => car' = car]_vars

\* list_cars answered on a collection seeded by an earlier call (a booking
\* is stored, so a car was there before)
C8_Witness ==
  /\ last.req.op = "list_cars"
  /\ booking # <<>>
  /\ SeededOnce(car)
  /\ Len(last.resp.ids) = Len(SAMPLE_CARS)

(***************************************************************************)
(* C9.  ensure_seed's count-is-zero test and its insert are a non-atomic   *)
(* check-then-act: a request that saw a count of 0 inserts the sample set  *)
(* whatever the collection holds by then, so two interleaved first         *)
(* requests leave every sample car stored twice.                           *)
(***************************************************************************)
C9_SeedInsertUnconditional ==
  [][\A t \in Tasks :
       (task[t].pc = "seed_insert" /\ task'[t].pc # "seed_insert")
         => /\ Len(car') = Len(car) + Len(SAMPLE_CARS)
            /\ SubSeq(car', 1, Len(car)) = car
            /\ \A i \in 1..Len(SAMPLE_CARS) :
                 car'[Len(car) + i].title = SAMPLE_CARS[i].title]_vars

\* every sample car is stored twice
C9_Witness ==
  /\ Len(car) = 2 * Len(SAMPLE_CARS)
  /\ \A i \in 1..Len(SAMPLE_CARS) :
       Cardinality({k \in 1..Len(car) : car[k].title = SAMPLE_CARS[i].title}) = 2

(***************************************************************************)
(* C10.  As claimed: with no store handle, every write endpoint answers    *)
(* 500 "Database not available" and every read endpoint answers with an    *)
(* empty result, not an error.                                             *)
(***************************************************************************)
WriteOps == {"create_booking", "add_review", "submit_contact"}

ListOps == {"list_cars", "list_bookings", "list_reviews"}

====
